---- MODULE Spec2Model ----
(***************************************************************************)
(* Model of irr_app.py: the XIRR solver, the per-group net cash flow       *)
(* series, the category grouping loop, the summary mean and the deal-level *)
(* loop of one run of the script.                                          *)
(*                                                                         *)
(* Representation.  A date is a day number counted from 2020-01-01.  A     *)
(* table (DataFrame) is a sequence of rows, a row a function from column   *)
(* name to value.  A missing categorical value is the string NaN.  A float *)
(* is a record [isnan, v]; v is an integer count of the unit in use        *)
(* (0.001 % for the root finder's rate times 100, 0.01 % once rounded).    *)
(***************************************************************************)
EXTENDS Integers, Sequences, FiniteSets, TLC

\* ---------------------------------------------------------------- bounds
MaxRows == 3
MaxGroupRows == 3

\* ------------------------------------------------------- input universes
NaN == "NaN"
Dates == {0, 366}
Amounts == {-1, 1}
Deals == {"D1", "D2"}
Funds == {"F1"}
Industries == {"Energy", "Tech"}
GroupDates == {0, 200, 366}
GroupAmounts == {-1, 0, 1}

\* Order of the values of a column, as pandas sorts them.
StrRank == [s \in {"D1", "D2", "Energy", "Tech", "F1", "F2"} |->
              CASE s = "D1" -> 1 [] s = "D2" -> 2
                [] s = "Energy" -> 1 [] s = "Tech" -> 2
                [] s = "F1" -> 1 [] s = "F2" -> 2]

Rank(col, v) == IF col \in {"Year", "Date", "Amount"} THEN v ELSE StrRank[v]

\* The model's numeric columns carry no missing value.
isna(col, v) == IF col \in {"Year", "Date", "Amount"} THEN FALSE ELSE v = NaN

Range(s) == {s[i] : i \in 1..Len(s)}

\* ----------------------------------------------------------------- floats
NaNf == [isnan |-> TRUE, v |-> 0]
Num(x) == [isnan |-> FALSE, v |-> x]
isnan(x) == x.isnan

\* round(x, 2) of a value given in units of 0.001, result in units of 0.01
\* (round half to even).
Round2(x) ==
    LET q == x \div 10
        r == x % 10
    IN  IF r < 5 THEN q
        ELSE IF r > 5 THEN q + 1
        ELSE IF q % 2 = 0 THEN q ELSE q + 1

\* ------------------------------------------------------------ root finder
\* scipy.optimize.newton(xnpv, 0.1) is a library routine: for a given series
\* it returns a root, returns NaN, or raises (no convergence, overflow,
\* complex power, zero division).  Rates are newton's return value times 100
\* in units of 0.001 %.
Rates == {10000, 12345}
NewtonOutcomes ==
    {[exc |-> FALSE, isnan |-> FALSE, v |-> r] : r \in Rates}
      \cup {[exc |-> FALSE, isnan |-> TRUE, v |-> 0],
            [exc |-> TRUE, isnan |-> FALSE, v |-> 0]}

\* -------------------------------------------------------------------- xirr
\* The two precondition tests of xirr.
TooShort(cash_flows) == Len(cash_flows) < 2

NoSignChangeAnd(cash_flows) ==
    LET values == [i \in 1..Len(cash_flows) |-> cash_flows[i][2]]
    IN  /\ ~ \E i \in 1..Len(values) : values[i] > 0
        /\ ~ \E i \in 1..Len(values) : values[i] < 0

NoSignChange(cash_flows) ==
    LET values == [i \in 1..Len(cash_flows) |-> cash_flows[i][2]]
    IN  \/ ~ \E i \in 1..Len(values) : values[i] > 0
        \/ ~ \E i \in 1..Len(values) : values[i] < 0

\* try: return round(newton(...) * 100, 2)  except: return nan
NoTryExcept(root) ==
    IF root.exc THEN [raised |-> TRUE, irr |-> NaNf]
    ELSE IF root.isnan THEN [raised |-> FALSE, irr |-> NaNf]
    ELSE [raised |-> FALSE, irr |-> Num(Round2(root.v))]

TryNewton(root) ==
    IF root.exc THEN [raised |-> FALSE, irr |-> NaNf]
    ELSE IF root.isnan THEN [raised |-> FALSE, irr |-> NaNf]
    ELSE [raised |-> FALSE, irr |-> Num(Round2(root.v))]

xirrShortZero(cash_flows, root) ==
    IF TooShort(cash_flows)
    THEN [called |-> FALSE, raised |-> FALSE, irr |-> Num(0)]
    ELSE IF NoSignChange(cash_flows)
    THEN [called |-> FALSE, raised |-> FALSE, irr |-> NaNf]
    ELSE LET t == TryNewton(root)
         IN  [called |-> TRUE, raised |-> t.raised, irr |-> t.irr]

\* xirr(cash_flows); root is what newton gives for this series when called.
\* called: the root finder was invoked; raised: an exception left xirr.
xirr(cash_flows, root) ==
    IF TooShort(cash_flows)
    THEN [called |-> FALSE, raised |-> FALSE, irr |-> NaNf]
    ELSE IF NoSignChange(cash_flows)
    THEN [called |-> FALSE, raised |-> FALSE, irr |-> NaNf]
    ELSE LET t == TryNewton(root)
         IN  [called |-> TRUE, raised |-> t.raised, irr |-> t.irr]

\* ----------------------------------------------------------- net series
\* group_df.groupby("Date")["Amount"].sum(): one entry per distinct date,
\* keyed in ascending date order, the amounts of the date summed.
RECURSIVE SumOn(_, _)
SumOn(df, d) ==
    IF df = <<>> THEN 0
    ELSE (IF Head(df)["Date"] = d THEN Head(df)["Amount"] ELSE 0)
           + SumOn(Tail(df), d)

RECURSIVE SortAsc(_)
SortAsc(S) ==
    IF S = {} THEN <<>>
    ELSE LET m == CHOOSE x \in S : \A y \in S : x <= y
         IN  <<m>> \o SortAsc(S \ {m})

RECURSIVE FirstOn(_, _)
FirstOn(df, d) ==
    IF Head(df)["Date"] = d THEN Head(df)["Amount"] ELSE FirstOn(Tail(df), d)

GroupbyDateFirst(df) ==
    LET idx == SortAsc({df[i]["Date"] : i \in 1..Len(df)})
    IN  [i \in 1..Len(idx) |-> <<idx[i], FirstOn(df, idx[i])>>]

GroupbyDateSum(df) ==
    LET idx == SortAsc({df[i]["Date"] : i \in 1..Len(df)})
    IN  [i \in 1..Len(idx) |-> <<idx[i], SumOn(df, idx[i])>>]

\* .sort_index(): stable insertion of each entry by its date.
RECURSIVE InsertByDate(_, _)
InsertByDate(s, e) ==
    IF s = <<>> THEN <<e>>
    ELSE IF e[1] < Head(s)[1] THEN <<e>> \o s
    ELSE <<Head(s)>> \o InsertByDate(Tail(s), e)

RECURSIVE SortIndex(_)
SortIndex(s) ==
    IF s = <<>> THEN <<>>
    ELSE InsertByDate(SortIndex(SubSeq(s, 1, Len(s) - 1)), s[Len(s)])

\* cash_flow_list = list(zip(cf_series.index, cf_series.values))
CashFlowList(df) == SortIndex(GroupbyDateSum(df))

\* ------------------------------------------------------------ input tables
CashFlowRow(d, a, c, f) ==
    ("Date" :> d) @@ ("Amount" :> a) @@ ("Deal Code" :> c) @@ ("Fund" :> f)

CashFlowRows == {CashFlowRow(d, a, c, f) : d \in Dates, a \in Amounts,
                                           c \in Deals, f \in Funds}

RECURSIVE SeqsUpTo(_, _)
SeqsUpTo(S, n) ==
    IF n = 0 THEN {<<>>}
    ELSE LET shorter == SeqsUpTo(S, n - 1)
         IN  shorter \cup {Append(s, x) : s \in {t \in shorter : Len(t) = n - 1},
                                          x \in S}

\* Sheet1: at least one row, at most MaxRows.
CashFlowTables == SeqsUpTo(CashFlowRows, MaxRows) \ {<<>>}

MetaRow(deal, ind) == ("Deal" :> deal) @@ ("Industry" :> ind)

\* Sheet2: one row per deal; an attribute may be missing.
MetadataTables == {<<MetaRow("D1", "Tech"), MetaRow("D2", i)>> :
                      i \in Industries \cup {NaN}}

MetadataColumns == <<"Deal", "Industry">>

\* Column names a Sheet3 may carry that no table has.
AbsentColumn == "Sector"

YearOf(d) == IF d < 366 THEN 2020 ELSE IF d < 731 THEN 2021 ELSE 2022

\* ---------------------------------------------------------------- filters
\* df[col].dropna().unique().tolist(), as a set of values
Options(df, col) == {df[i][col] : i \in 1..Len(df)} \ {NaN}

MinDate(df) == CHOOSE d \in {df[i]["Date"] : i \in 1..Len(df)} :
                  \A i \in 1..Len(df) : d <= df[i]["Date"]

MaxDate(df) == CHOOSE d \in {df[i]["Date"] : i \in 1..Len(df)} :
                  \A i \in 1..Len(df) : d >= df[i]["Date"]

\* deal_filter = metadata restricted, column by column, to the selected
\* values; filtered_deals = deal_filter["Deal"].tolist()
FilteredDeals(metadata, selected_industry) ==
    LET keep(r) == r["Industry"] \in selected_industry
        deal_filter == SelectSeq(metadata, keep)
    IN  {deal_filter[i]["Deal"] : i \in 1..Len(deal_filter)}

FilteredCashFlows(cash_flows, filtered_deals, selected_funds, date_range) ==
    LET keep(r) == /\ r["Deal Code"] \in filtered_deals
                   /\ r["Fund"] \in selected_funds
                   /\ r["Date"] >= date_range[1]
                   /\ r["Date"] <= date_range[2]
    IN  SelectSeq(cash_flows, keep)

\* left.merge(right, left_on="Deal Code", right_on="Deal"): inner join, the
\* left rows in order, each joined to every right row of its deal.
RECURSIVE Merge(_, _)
Merge(left, right) ==
    IF left = <<>> THEN <<>>
    ELSE LET l == Head(left)
             match(r) == r["Deal"] = l["Deal Code"]
             rs == SelectSeq(right, match)
         IN  [i \in 1..Len(rs) |-> l @@ rs[i]] \o Merge(Tail(left), right)

\* merged_df["Year"] = pd.to_datetime(merged_df["Date"]).dt.year
WithYear(df) == [i \in 1..Len(df) |-> df[i] @@ ("Year" :> YearOf(df[i]["Date"]))]

MergedColumns == {"Date", "Amount", "Deal Code", "Fund", "Deal", "Industry", "Year"}

\* ---------------------------------------------------------------- groupby
KeyOf(r, keys) == [i \in 1..Len(keys) |-> r[keys[i]]]

RECURSIVE KeyLess(_, _, _)
KeyLess(keys, a, b) ==
    IF keys = <<>> THEN FALSE
    ELSE LET ra == Rank(Head(keys), Head(a))
             rb == Rank(Head(keys), Head(b))
         IN  IF ra < rb THEN TRUE
             ELSE IF ra > rb THEN FALSE
             ELSE KeyLess(Tail(keys), Tail(a), Tail(b))

RECURSIVE SortKeys(_, _)
SortKeys(keys, S) ==
    IF S = {} THEN <<>>
    ELSE LET m == CHOOSE x \in S : \A y \in S \ {x} : KeyLess(keys, x, y)
         IN  <<m>> \o SortKeys(keys, S \ {m})

\* The groups df.groupby(keys) iterates over (sort=True, dropna=True): rows
\* with a missing key value are left out, the keys come in sorted order, each
\* with its rows in table order.
Groups(df, keys) ==
    LET has(r) == \A i \in 1..Len(keys) : ~ isna(keys[i], r[keys[i]])
        kept == SelectSeq(df, has)
        order == SortKeys(keys, {KeyOf(kept[i], keys) : i \in 1..Len(kept)})
    IN  [i \in 1..Len(order) |->
           LET in(r) == KeyOf(r, keys) = order[i]
           IN  [key |-> order[i], df |-> SelectSeq(kept, in)]]

\* df.groupby(keys): ValueError("No group keys passed!") for an empty key
\* list, KeyError for a key that is not a column.
GroupByNoKeyCheck(df, keys) ==
    LET present == SelectSeq(keys, LAMBDA k : k \in MergedColumns)
    IN  IF keys = <<>> THEN [err |-> "ValueError", groups |-> <<>>]
        ELSE [err |-> "none", groups |-> Groups(df, present)]

GroupBy(df, keys) ==
    IF keys = <<>> THEN [err |-> "ValueError", groups |-> <<>>]
    ELSE IF \E i \in 1..Len(keys) : keys[i] \notin MergedColumns
    THEN [err |-> "KeyError", groups |-> <<>>]
    ELSE [err |-> "none", groups |-> Groups(df, keys)]

\* df[col].unique(): the values in order of first occurrence
RECURSIVE Unique(_, _)
Unique(df, col) ==
    IF df = <<>> THEN <<>>
    ELSE LET init == Unique(SubSeq(df, 1, Len(df) - 1), col)
             v == df[Len(df)][col]
         IN  IF v \in Range(init) THEN init ELSE Append(init, v)

\* dict(zip(group_columns, group_keys)); group_keys is a tuple with one value
\* per grouping column.
ZipDict(columns, values) ==
    [c \in Range(columns) |->
       values[CHOOSE i \in 1..Len(columns) :
                /\ columns[i] = c
                /\ \A j \in 1..Len(columns) : columns[j] = c => j <= i]]

\* ------------------------------------------------------------------- mean
\* pd.DataFrame(rows)['IRR'].mean(): KeyError when there is no row (the frame
\* has no column), else the mean of the values that are not NaN as the
\* fraction num/den, NaN when there is none.
RECURSIVE SumIRR(_)
SumIRR(rows) ==
    IF rows = <<>> THEN 0
    ELSE (IF isnan(Head(rows)["IRR"]) THEN 0 ELSE Head(rows)["IRR"].v)
           + SumIRR(Tail(rows))

MeanIRR(rows) ==
    LET present == SelectSeq(rows, LAMBDA r : ~ isnan(r["IRR"]))
    IN  IF rows = <<>> THEN [err |-> "KeyError", isnan |-> TRUE, num |-> 0, den |-> 1]
        ELSE IF present = <<>> THEN [err |-> "none", isnan |-> TRUE, num |-> 0, den |-> 1]
        ELSE [err |-> "none", isnan |-> FALSE,
              num |-> SumIRR(present), den |-> Len(present)]

\* ------------------------------------------------------------------ state
VARIABLES
    pc,              \* position of the run in the script
    err,             \* the exception that ended the run, "none" if none
    merged_df,       \* the filtered cash flows joined to the metadata
    group_columns,   \* the selected grouping columns
    groups,          \* what merged_df.groupby(group_columns) iterates over
    gi,              \* index of the next group of the category loop
    irr_results,
    skipped_groups,
    cat_series,      \* the cash_flow_list of each category iteration, in order
    avg_irr,
    deals,           \* merged_df["Deal Code"].unique()
    di,              \* index of the next deal of the deal-level loop
    deal_irr_list,
    skipped_deals,
    deal_series,     \* the cash_flow_list of each deal iteration, in order
    newton_memo,     \* what the root finder gave for each series it was run on
    newton_calls,    \* number of invocations of the root finder
    group_df,        \* loop locals: the rows of the current group,
    cash_flow_list,  \*   its net series
    irr              \*   and the solver's result for it

vars == <<pc, err, merged_df, group_columns, groups, gi, irr_results,
          skipped_groups, cat_series, avg_irr, deals, di, deal_irr_list,
          skipped_deals, deal_series, newton_memo, newton_calls, group_df,
          cash_flow_list, irr>>

NoMean == [err |-> "none", isnan |-> TRUE, num |-> 0, den |-> 1]

Blank ==
    /\ err = "none"
    /\ merged_df = <<>>
    /\ group_columns = <<>>
    /\ groups = <<>>
    /\ gi = 1
    /\ irr_results = <<>>
    /\ skipped_groups = <<>>
    /\ cat_series = <<>>
    /\ avg_irr = NoMean
    /\ deals = <<>>
    /\ di = 1
    /\ deal_irr_list = <<>>
    /\ skipped_deals = <<>>
    /\ deal_series = <<>>
    /\ newton_memo = <<>>
    /\ newton_calls = 0
    /\ cash_flow_list = <<>>
    /\ irr = NaNf

\* The run starts when a file has been uploaded.
Init ==
    /\ pc = "upload"
    /\ group_df = <<>>
    /\ Blank

\* The root finder is a function of the series: run again on a series it has
\* seen, it gives what it gave before.
Consistent(memo, series, root) ==
    series \in DOMAIN memo => root = memo[series]

Remember(memo, series, root, called) ==
    IF called THEN (series :> root) @@ memo ELSE memo

\* if np.isnan(irr): skipped_groups.append(dict(zip(group_columns, group_keys)))
SkipGroupWhenSolved(skipped, x, entry) ==
    IF isnan(x) THEN skipped ELSE Append(skipped, entry)

SkipGroup(skipped, x, entry) ==
    IF isnan(x) THEN Append(skipped, entry) ELSE skipped

\* if np.isnan(irr): skipped_deals.append(deal)
SkipDeal(skipped, x, deal) ==
    IF isnan(x) THEN Append(skipped, deal) ELSE skipped

\* deal_df = merged_df[merged_df["Deal Code"] == deal]
DealRowsUnfiltered(df, deal) == df

DealRows(df, deal) == SelectSeq(df, LAMBDA r : r["Deal Code"] = deal)

\* Lines 47-87: load_data, the sidebar filters, the merge, the Year column.
LoadAndFilter ==
    /\ pc = "upload"
    /\ \E cash_flows \in CashFlowTables, metadata \in MetadataTables :
         \E selected_industry \in SUBSET Options(metadata, "Industry"),
            selected_funds \in SUBSET Options(cash_flows, "Fund"),
            lo \in {MinDate(cash_flows)},
            hi \in {MinDate(cash_flows), MaxDate(cash_flows)} :
           LET filtered_deals == FilteredDeals(metadata, selected_industry)
               filtered_cash_flows ==
                   FilteredCashFlows(cash_flows, filtered_deals,
                                     selected_funds, <<lo, hi>>)
           IN  merged_df' = WithYear(Merge(filtered_cash_flows, metadata))
    /\ pc' = "group"
    /\ UNCHANGED <<err, group_columns, groups, gi, irr_results, skipped_groups,
                   cat_series, avg_irr, deals, di, deal_irr_list,
                   skipped_deals, deal_series, newton_memo, newton_calls,
                   group_df, cash_flow_list, irr>>

\* The grouping columns the sidebar can hand to groupby: selections among
\* the available fields, and a Sheet3 default naming a column no table has.
KeyLists == {<<>>, <<"Industry">>, <<"Year">>,
             <<"Industry", "Year">>, <<"Industry", "Fund", "Year">>,
             <<AbsentColumn>>, <<"Industry", AbsentColumn>>}

\* Lines 97-101: the selection and the call merged_df.groupby(group_columns).
SelectAndGroup ==
    /\ pc = "group"
    /\ \E keys \in KeyLists :
         LET g == GroupBy(merged_df, keys)
         IN  /\ group_columns' = keys
             /\ groups' = g.groups
             /\ err' = g.err
             /\ pc' = IF g.err = "none" THEN "category_loop" ELSE "error"
    /\ gi' = 1
    /\ UNCHANGED <<merged_df, irr_results, skipped_groups, cat_series, avg_irr,
                   deals, di, deal_irr_list, skipped_deals, deal_series,
                   newton_memo, newton_calls, group_df, cash_flow_list, irr>>

\* Lines 101-107: one iteration of the category loop.
CategoryIter ==
    /\ pc = "category_loop"
    /\ gi <= Len(groups)
    /\ LET group_keys == groups[gi].key
           cfl == CashFlowList(groups[gi].df)
       IN  \E root \in NewtonOutcomes :
             /\ Consistent(newton_memo, cfl, root)
             /\ LET res == xirr(cfl, root)
                IN  /\ group_df' = groups[gi].df
                    /\ cash_flow_list' = cfl
                    /\ cat_series' = Append(cat_series, cfl)
                    /\ newton_memo' = Remember(newton_memo, cfl, root, res.called)
                    /\ newton_calls' = newton_calls + (IF res.called THEN 1 ELSE 0)
                    /\ irr' = res.irr
                    /\ IF res.raised
                       THEN /\ pc' = "error"
                            /\ err' = "SolverError"
                            /\ UNCHANGED <<gi, irr_results, skipped_groups>>
                       ELSE /\ skipped_groups' =
                                 SkipGroup(skipped_groups, res.irr,
                                           ZipDict(group_columns, group_keys))
                            /\ irr_results' =
                                 Append(irr_results,
                                        ("IRR" :> res.irr)
                                          @@ ZipDict(group_columns, group_keys))
                            /\ gi' = gi + 1
                            /\ UNCHANGED <<pc, err>>
    /\ UNCHANGED <<merged_df, group_columns, groups, avg_irr, deals, di,
                   deal_irr_list, skipped_deals, deal_series>>

\* Lines 109-123: the results table and the summary mean.
Summary ==
    /\ pc = "category_loop"
    /\ gi > Len(groups)
    /\ LET m == MeanIRR(irr_results)
       IN  /\ avg_irr' = m
           /\ err' = IF m.err = "none" THEN "none" ELSE "KeyError_IRR"
           /\ pc' = IF m.err = "none" THEN "deal_loop" ELSE "error"
    /\ deals' = Unique(merged_df, "Deal Code")
    /\ di' = 1
    /\ UNCHANGED <<merged_df, group_columns, groups, gi, irr_results,
                   skipped_groups, cat_series, deal_irr_list, skipped_deals,
                   deal_series, newton_memo, newton_calls, group_df,
                   cash_flow_list, irr>>

\* Lines 124-131: one iteration of the deal-level loop.
DealIter ==
    /\ pc = "deal_loop"
    /\ di <= Len(deals)
    /\ LET deal == deals[di]
           deal_df == DealRows(merged_df, deal)
           cfl == CashFlowList(deal_df)
       IN  \E root \in NewtonOutcomes :
             /\ Consistent(newton_memo, cfl, root)
             /\ LET res == xirr(cfl, root)
                IN  /\ group_df' = deal_df
                    /\ cash_flow_list' = cfl
                    /\ deal_series' = Append(deal_series, cfl)
                    /\ newton_memo' = Remember(newton_memo, cfl, root, res.called)
                    /\ newton_calls' = newton_calls + (IF res.called THEN 1 ELSE 0)
                    /\ irr' = res.irr
                    /\ IF res.raised
                       THEN /\ pc' = "error"
                            /\ err' = "SolverError"
                            /\ UNCHANGED <<di, deal_irr_list, skipped_deals>>
                       ELSE /\ skipped_deals' =
                                 SkipDeal(skipped_deals, res.irr, deal)
                            /\ deal_irr_list' =
                                 Append(deal_irr_list,
                                        ("Deal Code" :> deal)
                                          @@ ("IRR (%)" :> res.irr))
                            /\ di' = di + 1
                            /\ UNCHANGED <<pc, err>>
    /\ UNCHANGED <<merged_df, group_columns, groups, gi, irr_results,
                   skipped_groups, cat_series, avg_irr, deals>>

\* Line 132: the deal-level loop is over.
Finish ==
    /\ pc = "deal_loop"
    /\ di > Len(deals)
    /\ pc' = "done"
    /\ UNCHANGED <<err, merged_df, group_columns, groups, gi, irr_results,
                   skipped_groups, cat_series, avg_irr, deals, di,
                   deal_irr_list, skipped_deals, deal_series, newton_memo,
                   newton_calls, group_df, cash_flow_list, irr>>

Next ==
    \/ LoadAndFilter
    \/ SelectAndGroup
    \/ CategoryIter
    \/ Summary
    \/ DealIter
    \/ Finish

Spec == Init /\ [][Next]_vars

\* ------------------------------------------- one group, any rows (pure)
\* Lines 102-105 on the rows of one group taken from a bounded universe.
GroupRow(d, a) == ("Date" :> d) @@ ("Amount" :> a)

GroupTables ==
    SeqsUpTo({GroupRow(d, a) : d \in GroupDates, a \in GroupAmounts},
             MaxGroupRows)

InitGroup ==
    /\ pc = "build"
    /\ group_df \in GroupTables
    /\ Blank

\* Lines 102-103
BuildSeries ==
    /\ pc = "build"
    /\ cash_flow_list' = CashFlowList(group_df)
    /\ pc' = "solve"
    /\ UNCHANGED <<err, merged_df, group_columns, groups, gi, irr_results,
                   skipped_groups, cat_series, avg_irr, deals, di,
                   deal_irr_list, skipped_deals, deal_series, newton_memo,
                   newton_calls, group_df, irr>>

\* Line 104
Solve ==
    /\ pc = "solve"
    /\ \E root \in NewtonOutcomes :
         LET res == xirr(cash_flow_list, root)
         IN  /\ irr' = res.irr
             /\ newton_memo' = Remember(newton_memo, cash_flow_list, root, res.called)
             /\ newton_calls' = newton_calls + (IF res.called THEN 1 ELSE 0)
             /\ err' = IF res.raised THEN "SolverError" ELSE err
    /\ pc' = "solved"
    /\ UNCHANGED <<merged_df, group_columns, groups, gi, irr_results,
                   skipped_groups, cat_series, avg_irr, deals, di,
                   deal_irr_list, skipped_deals, deal_series, group_df,
                   cash_flow_list>>

NextGroup ==
    \/ BuildSeries
    \/ Solve

SpecGroup == InitGroup /\ [][NextGroup]_vars

\* ================================================================= claims
DatesOf(df) == {df[i]["Date"] : i \in 1..Len(df)}

SeriesDates(series) == {series[i][1] : i \in 1..Len(series)}

\* The total of the amounts of the rows of df dated d, row by row.
RECURSIVE TotalOn(_, _, _)
TotalOn(df, d, n) ==
    IF n = 0 THEN 0
    ELSE TotalOn(df, d, n - 1) + (IF df[n]["Date"] = d THEN df[n]["Amount"] ELSE 0)

\* C2: a series with fewer than 2 distinct dates, the empty one included,
\* is answered NaN and the root finder is not invoked.
C2_ShortSeriesUnsolvable ==
    (pc = "solved" /\ Cardinality(SeriesDates(cash_flow_list)) < 2) =>
        /\ isnan(irr)
        /\ newton_calls = 0
        /\ cash_flow_list \notin DOMAIN newton_memo
        /\ err = "none"

C2_Witness ==
    /\ pc = "solved"
    /\ Len(group_df) = 2
    /\ Len(cash_flow_list) = 1
    /\ cash_flow_list[1][2] # 0

\* C3: a series whose amounts are all >= 0 or all <= 0 is answered NaN and
\* the root finder is not invoked.
C3_SameSignUnsolvable ==
    (/\ pc = "solved"
     /\ \/ \A i \in 1..Len(cash_flow_list) : cash_flow_list[i][2] >= 0
        \/ \A i \in 1..Len(cash_flow_list) : cash_flow_list[i][2] <= 0) =>
        /\ isnan(irr)
        /\ newton_calls = 0
        /\ cash_flow_list \notin DOMAIN newton_memo
        /\ err = "none"

C3_Witness ==
    /\ pc = "solved"
    /\ Len(cash_flow_list) >= 2
    /\ \A i \in 1..Len(cash_flow_list) : cash_flow_list[i][2] >= 0
    /\ \E i \in 1..Len(cash_flow_list) : cash_flow_list[i][2] > 0
    /\ \E i \in 1..Len(cash_flow_list) : cash_flow_list[i][2] = 0

\* C4: the net series of a group has exactly one entry per distinct date of
\* the group, each entry carries the total of the group's amounts on its
\* date, and the entries are in strictly increasing date order.
C4_NetSeries ==
    (pc \in {"solve", "solved"}) =>
        /\ SeriesDates(cash_flow_list) = DatesOf(group_df)
        /\ Len(cash_flow_list) = Cardinality(DatesOf(group_df))
        /\ \A i \in 1..Len(cash_flow_list) :
             cash_flow_list[i][2] =
                 TotalOn(group_df, cash_flow_list[i][1], Len(group_df))
        /\ \A i \in 1..Len(cash_flow_list) - 1 :
             cash_flow_list[i][1] < cash_flow_list[i + 1][1]

\* Rows out of date order, two of them on one date.
C4_Witness ==
    /\ pc = "solve"
    /\ Len(group_df) = 3
    /\ group_df[1]["Date"] > group_df[2]["Date"]
    /\ group_df[3]["Date"] = group_df[1]["Date"]
    /\ group_df[1]["Amount"] = -1
    /\ group_df[3]["Amount"] = -1
    /\ cash_flow_list[2] = <<group_df[1]["Date"], -2>>

\* ------------------------------------------------------ the whole run
\* The call to groupby has been made.
GroupingRan == pc \notin {"upload", "group", "build", "solve", "solved"}

KeysPresent == \A i \in 1..Len(group_columns) : group_columns[i] \in MergedColumns

\* The category loop statement has been left, normally or by groupby raising.
CategoryLoopLeft == GroupingRan /\ gi > Len(groups)

\* The category loop has iterated over every group.
CategoryLoopDone ==
    CategoryLoopLeft /\ err \notin {"ValueError", "KeyError", "SolverError"}

\* The summary mean has been evaluated.
SummaryRan == pc \in {"deal_loop", "done"} \/ err = "KeyError_IRR"

GroupKey(i) == ZipDict(group_columns, groups[i].key)

KeyPart(row) == [c \in DOMAIN row \ {"IRR"} |-> row[c]]

Count(df, r) == Cardinality({n \in 1..Len(df) : df[n] = r})

RECURSIVE CountInGroups(_, _)
CountInGroups(gs, r) ==
    IF gs = <<>> THEN 0 ELSE Count(Head(gs).df, r) + CountInGroups(Tail(gs), r)

\* The solver converged on the series: both preconditions hold and the root
\* finder returned a number.
Converged(series) ==
    /\ Cardinality(SeriesDates(series)) >= 2
    /\ \E i \in 1..Len(series) : series[i][2] > 0
    /\ \E i \in 1..Len(series) : series[i][2] < 0
    /\ series \in DOMAIN newton_memo
    /\ ~ newton_memo[series].exc
    /\ ~ newton_memo[series].isnan

\* C1 (as claimed): for every key list, once the category loop statement has
\* run, every record of merged_df is in exactly one emitted group, the groups
\* together are merged_df, and no group is empty.
C1_StrictPartition ==
    (CategoryLoopLeft /\ KeysPresent) =>
        /\ \A n \in 1..Len(merged_df) :
             /\ Cardinality({i \in 1..Len(groups) :
                               merged_df[n] \in Range(groups[i].df)}) = 1
             /\ CountInGroups(groups, merged_df[n]) = Count(merged_df, merged_df[n])
        /\ \A i \in 1..Len(groups) :
             /\ groups[i].df # <<>>
             /\ Range(groups[i].df) \subseteq Range(merged_df)

\* C5 (as claimed): grouping by the empty key list succeeds with exactly one
\* group holding every record, one series built and one solve attempted.
C5_EmptyKeysOneGroup ==
    (GroupingRan /\ group_columns = <<>>) =>
        /\ err \notin {"ValueError", "KeyError"}
        /\ Len(groups) = 1
        /\ groups[1].df = merged_df
        /\ (CategoryLoopDone => Len(cat_series) = 1 /\ Len(irr_results) = 1)

\* C6 (as claimed): after the category loop a group has a row in irr_results
\* iff the solver converged on its series, a group whose solve failed is in
\* skipped_groups and not in irr_results, and no group is in both.
C6_ResultIffConverged ==
    CategoryLoopDone =>
        \A i \in 1..Len(groups) :
           LET inResults == \E j \in 1..Len(irr_results) :
                               KeyPart(irr_results[j]) = GroupKey(i)
               inSkipped == GroupKey(i) \in Range(skipped_groups)
           IN  /\ inResults <=> Converged(CashFlowList(groups[i].df))
               /\ ~ Converged(CashFlowList(groups[i].df)) =>
                     (inSkipped /\ ~ inResults)
               /\ ~ (inResults /\ inSkipped)

\* C6 (amended): after the category loop every group has exactly one row in
\* irr_results, in group order, whose IRR is a number iff the solver
\* converged on the group's series and NaN otherwise; the group is in
\* skipped_groups, under the same key, iff its solve failed, and
\* skipped_groups lists the keys of the NaN rows in order.
C6_ResultForEveryGroup ==
    CategoryLoopDone =>
        /\ Len(irr_results) = Len(groups)
        /\ \A i \in 1..Len(groups) :
             /\ KeyPart(irr_results[i]) = GroupKey(i)
             /\ ~ isnan(irr_results[i]["IRR"]) <=>
                   Converged(CashFlowList(groups[i].df))
             /\ GroupKey(i) \in Range(skipped_groups) <=>
                   ~ Converged(CashFlowList(groups[i].df))
        /\ LET failed == SelectSeq(irr_results, LAMBDA r : isnan(r["IRR"]))
           IN  skipped_groups = [j \in 1..Len(failed) |-> KeyPart(failed[j])]

C6_Witness ==
    /\ CategoryLoopDone
    /\ Len(groups) = 2
    /\ \E i, j \in 1..2 :
         /\ ~ isnan(irr_results[i]["IRR"])
         /\ isnan(irr_results[j]["IRR"])
         /\ Len(skipped_groups) = 1

\* C7: no exception leaves the solver; when the category loop ends every
\* group has been attempted (one series and one recorded result per group)
\* and every group the solver could not solve has its skip entry; likewise
\* every deal of the deal-level loop.
C7_UnsolvableNeverAborts ==
    /\ err # "SolverError"
    /\ (GroupingRan /\ err \notin {"ValueError", "KeyError"} /\ pc # "category_loop") =>
          gi > Len(groups)
    /\ CategoryLoopDone =>
          /\ Len(cat_series) = Len(groups)
          /\ Len(irr_results) = Len(groups)
          /\ \A i \in 1..Len(groups) :
               ~ Converged(CashFlowList(groups[i].df)) =>
                   GroupKey(i) \in Range(skipped_groups)
    /\ pc = "done" =>
          /\ Len(deal_series) = Len(deals)
          /\ Len(deal_irr_list) = Len(deals)
          /\ \A i \in 1..Len(deals) :
               ~ Converged(deal_series[i]) => deals[i] \in Range(skipped_deals)

\* Two groups, the root finder raised on the first, the second still done.
C7_Witness ==
    /\ CategoryLoopDone
    /\ Len(groups) = 2
    /\ cat_series[1] \in DOMAIN newton_memo
    /\ newton_memo[cat_series[1]].exc
    /\ Len(irr_results) = 2
    /\ Len(skipped_groups) = 2

\* What the category loop does with keys = ["Deal Code"].
DealCodeGroups == GroupBy(merged_df, <<"Deal Code">>).groups

\* The IRR the category loop computes for a series, the root finder giving
\* for it what it gave when it was run on it.
IrrOf(series) ==
    xirr(series, IF series \in DOMAIN newton_memo THEN newton_memo[series]
                 ELSE [exc |-> TRUE, isnan |-> FALSE, v |-> 0]).irr

FirstIndex(df, deal) ==
    CHOOSE n \in 1..Len(df) :
       /\ df[n]["Deal Code"] = deal
       /\ \A m \in 1..(n - 1) : df[m]["Deal Code"] # deal

\* C8 (as claimed): the deal-level loop emits the groups of the category
\* loop run with keys = ["Deal Code"], in the same order, with the same
\* series, IRR and outcome, its skip list the skipped deal identifiers.
C8_DealLoopSameOrder ==
    pc = "done" =>
        /\ Len(deal_irr_list) = Len(DealCodeGroups)
        /\ \A i \in 1..Len(DealCodeGroups) :
             /\ i <= Len(deal_irr_list)
             /\ deal_irr_list[i]["Deal Code"] = DealCodeGroups[i].key[1]
             /\ deal_series[i] = CashFlowList(DealCodeGroups[i].df)
             /\ deal_irr_list[i]["IRR (%)"] = IrrOf(CashFlowList(DealCodeGroups[i].df))
        /\ LET failed == SelectSeq(DealCodeGroups,
                                   LAMBDA g : isnan(IrrOf(CashFlowList(g.df))))
           IN  skipped_deals = [j \in 1..Len(failed) |-> failed[j].key[1]]

\* C8 (amended): the deal-level loop emits the groups of the category loop
\* run with keys = ["Deal Code"], each with the same series, IRR and
\* outcome, but in order of first occurrence of the deal in merged_df where
\* groupby emits in sorted key order; its skip list is the flat sequence of
\* the skipped deal identifiers in that order.
C8_DealLoopSameGroups ==
    pc = "done" =>
        /\ Len(deal_irr_list) = Len(DealCodeGroups)
        /\ \A i \in 1..Len(DealCodeGroups) :
             \E j \in 1..Len(deal_irr_list) :
                /\ deal_irr_list[j]["Deal Code"] = DealCodeGroups[i].key[1]
                /\ deal_series[j] = CashFlowList(DealCodeGroups[i].df)
                /\ deal_irr_list[j]["IRR (%)"] = IrrOf(CashFlowList(DealCodeGroups[i].df))
                /\ isnan(deal_irr_list[j]["IRR (%)"]) <=>
                      DealCodeGroups[i].key[1] \in Range(skipped_deals)
        /\ \A j, k \in 1..Len(deal_irr_list) :
             j < k => FirstIndex(merged_df, deal_irr_list[j]["Deal Code"])
                        < FirstIndex(merged_df, deal_irr_list[k]["Deal Code"])
        /\ \A i \in 1..(Len(DealCodeGroups) - 1) :
             KeyLess(<<"Deal Code">>, DealCodeGroups[i].key, DealCodeGroups[i + 1].key)
        /\ LET failed == SelectSeq(deal_irr_list, LAMBDA r : isnan(r["IRR (%)"]))
           IN  skipped_deals = [j \in 1..Len(failed) |-> failed[j]["Deal Code"]]

\* Two deals, the later in key order first in the table, one solved.
C8_Witness ==
    /\ pc = "done"
    /\ Len(deal_irr_list) = 2
    /\ deal_irr_list[1]["Deal Code"] = "D2"
    /\ ~ isnan(deal_irr_list[1]["IRR (%)"])
    /\ skipped_deals = <<"D1">>

\* The value the claim asks for in place of a mean that does not exist.
NoData == [err |-> "none", isnan |-> FALSE, num |-> 0, den |-> 0]

\* C9 (as claimed): the summary mean is the mean of the category IRR values
\* that are not NaN, and with no such value it is the "no data" value: it
\* is not NaN and no error is raised.
C9_MeanOrNoData ==
    SummaryRan =>
        LET present == SelectSeq(irr_results, LAMBDA r : ~ isnan(r["IRR"]))
        IN  /\ err = "none"
            /\ IF present # <<>>
               THEN /\ ~ avg_irr.isnan
                    /\ avg_irr.num = SumIRR(present)
                    /\ avg_irr.den = Len(present)
               ELSE avg_irr = NoData

\* C10: with a grouping column that merged_df does not have, groupby raises:
\* no group is emitted and nothing is appended to irr_results or
\* skipped_groups.  Year is a column of merged_df: grouping by it raises no
\* KeyError.
C10_AbsentKeyFails ==
    /\ (GroupingRan /\ ~ KeysPresent) =>
          /\ pc = "error"
          /\ err = "KeyError"
          /\ groups = <<>>
          /\ cat_series = <<>>
          /\ irr_results = <<>>
          /\ skipped_groups = <<>>
    /\ (GroupingRan /\ KeysPresent) => err # "KeyError"

C10_Witness ==
    /\ pc = "error"
    /\ group_columns = <<"Industry", AbsentColumn>>
    /\ Len(merged_df) = 3
    /\ irr_results = <<>>

====
